---- MODULE Spec2Model ----
(***************************************************************************)
(* A model of the module-compilation core of mako:                         *)
(*   - the environment substitution pass (visitors/env_replacer.rs),       *)
(*   - the dependency injection pass (plugins/minifish/inject.rs),         *)
(*   - the module graph (module_graph.rs).                                 *)
(* Syntax trees are records [kind, sym, ctxt, kids]; kids is the sequence  *)
(* of child nodes in the order the swc visitor walks them.                 *)
(***************************************************************************)
EXTENDS Integers, Sequences, FiniteSets, TLC

VARIABLES
    pc,          \* position of the environment substitution pipeline
    config,      \* raw define configuration: name -> JSON value
    envs,        \* EnvReplacer.envs
    meta_envs,   \* EnvReplacer.meta_envs
    module,      \* the expression handed to the pass
    output,      \* the expression after the pass
    define_error,\* the source text named by the error build_env_map returned
    ipc,         \* position of the injection pass
    inj_config,  \* the watch map handed to MyInjector::new: name -> Inject
    in_body,     \* the module body before the pass
    injects,     \* MyInjector.injects
    will_inject, \* MyInjector.will_inject, in insertion order
    is_cjs,      \* MyInjector.is_cjs
    body,        \* the module body after the pass
    gpc,         \* "run", or "panicked" once a graph call has panicked
    nodes,       \* ModuleGraph.graph: node weights, by node index
    edges,       \* ModuleGraph.graph: edges, by edge index
    id_index_map,\* ModuleGraph.id_index_map
    entries,     \* ModuleGraph.entries
    last_deps,   \* what the last get_dependencies returned, until the next mutation
    last_call,   \* history: the payload of the latest add_dependency per node pair
    n_ops,       \* history: the number of add_module and add_dependency calls
    added        \* history: the modules handed to add_module, in call order

envVars == <<pc, config, envs, meta_envs, module, output, define_error>>
injVars == <<ipc, inj_config, in_body, injects, will_inject, is_cjs, body>>
graphVars == <<gpc, nodes, edges, id_index_map, entries, last_deps, last_call, n_ops, added>>
vars == <<envVars, injVars, graphVars>>

-----------------------------------------------------------------------------
(* Bounds *)

\* longest array written in a define value
MaxElems == 1
\* most top-level items of a module handed to the injection pass
MaxItems == 2
\* most add_module and add_dependency calls made on the graph
MaxOps == 4
\* largest declaration order of a dependency
MaxOrder == 2

-----------------------------------------------------------------------------
(* Syntax trees *)

Node(kind, sym, ctxt, kids) == [kind |-> kind, sym |-> sym, ctxt |-> ctxt, kids |-> kids]

\* the scope tag whose outer mark is the module's unresolved mark
unresolved_mark == "free"
\* the empty syntax context of DUMMY_SP and of trees parsed outside the module
DUMMY_SP == "none"
\* a tag given by the resolver to a local declaration
BoundTag == "b1"

NoNode == Node("None", "", DUMMY_SP, <<>>)

Ident(sym, ctxt) == Node("Ident", sym, ctxt, <<>>)
Str(value) == Node("Str", value, DUMMY_SP, <<>>)
Bool(value) == Node("Bool", value, DUMMY_SP, <<>>)
Number(value) == Node("Num", value, DUMMY_SP, <<>>)
Null == Node("Null", "null", DUMMY_SP, <<>>)
ArrayLit(elems) == Node("Array", "", DUMMY_SP, elems)
KeyValueProp(key, value) == Node("KeyValue", key, DUMMY_SP, <<value>>)
ObjectLit(props) == Node("Object", "", DUMMY_SP, props)
PropIdent(sym) == Node("PropIdent", sym, DUMMY_SP, <<>>)
ComputedPropName(expr) == Node("Computed", "", DUMMY_SP, <<expr>>)
MemberExpr(obj, prop) == Node("Member", "", DUMMY_SP, <<obj, prop>>)
MetaPropExpr == Node("MetaProp", "import.meta", DUMMY_SP, <<>>)
CallExpr(callee, args) == Node("Call", "", DUMMY_SP, <<callee>> \o args)

\* the node kinds that are swc Expr variants, i.e. reach visit_mut_expr
ExprKinds == {"Ident", "Str", "Bool", "Num", "Null", "Array", "Object", "Member", "MetaProp", "Call"}

RECURSIVE Paths(_)
Paths(n) ==
    {<<>>} \cup UNION {{<<i>> \o p : p \in Paths(n.kids[i])} : i \in DOMAIN n.kids}

RECURSIVE At(_, _)
At(n, p) ==
    IF p = <<>> THEN n
    ELSE IF Head(p) \in DOMAIN n.kids THEN At(n.kids[Head(p)], Tail(p))
    ELSE NoNode

\* all orders in which a hash map with key set S can be iterated
IterOrders(S) ==
    {s \in [1..Cardinality(S) -> S] : \A i, j \in 1..Cardinality(S) : i # j => s[i] # s[j]}

EmptyMap == [x \in {} |-> NoNode]
Insert(map, k, v) == [x \in DOMAIN map \cup {k} |-> IF x = k THEN v ELSE map[x]]

Some(x) == <<x>>
None == <<>>

-----------------------------------------------------------------------------
(* Define configuration and build_env_map *)

JString(src) == Node("JString", src, DUMMY_SP, <<>>)
JBool(v) == Node("JBool", v, DUMMY_SP, <<>>)
JNumber(v) == Node("JNumber", v, DUMMY_SP, <<>>)
JNull == Node("JNull", "null", DUMMY_SP, <<>>)
JArray(items) == Node("JArray", "", DUMMY_SP, items)
JEntry(key, value) == Node("JEntry", key, DUMMY_SP, <<value>>)
JObject(props) == Node("JObject", "", DUMMY_SP, props)

ExprStmt(expr) == Node("ExprStmt", "", DUMMY_SP, <<expr>>)
ForStmt == Node("ForStmt", "", DUMMY_SP, <<>>)

ProcessEnvDot(name, ctxt) ==
    MemberExpr(MemberExpr(Ident("process", ctxt), PropIdent("env")), PropIdent(name))
ProcessEnvBracket(name, ctxt) ==
    MemberExpr(MemberExpr(Ident("process", ctxt), PropIdent("env")), ComputedPropName(Str(name)))
ImportMetaEnv == MemberExpr(MetaPropExpr, PropIdent("env"))
ImportMetaEnvDot(name) == MemberExpr(ImportMetaEnv, PropIdent(name))
ImportMetaEnvBracket(name) == MemberExpr(ImportMetaEnv, ComputedPropName(Str(name)))

\* the parser on the source texts used as define values: the statements of the
\* parsed body, or a parse error
ParseSource(src) ==
    CASE src = "\"foo\"" -> [ok |-> TRUE, body |-> <<ExprStmt(Str("foo"))>>]
      [] src = "process.env.MODE" -> [ok |-> TRUE, body |-> <<ExprStmt(ProcessEnvDot("MODE", DUMMY_SP))>>]
      [] src = "B" -> [ok |-> TRUE, body |-> <<ExprStmt(Ident("B", DUMMY_SP))>>]
      [] src = "for(;;)console.log()" -> [ok |-> TRUE, body |-> <<ForStmt>>]
      [] src = "" -> [ok |-> TRUE, body |-> <<>>]
      [] src = "1;for(;;);" -> [ok |-> TRUE, body |-> <<ExprStmt(Number("1")), ForStmt>>]
      [] OTHER -> [ok |-> FALSE, body |-> <<>>]

Ok(expr) == [tag |-> "Ok", expr |-> expr, msg |-> ""]
Err(msg) == [tag |-> "Err", expr |-> NoNode, msg |-> msg]
Panic == [tag |-> "Panic", expr |-> NoNode, msg |-> ""]

\* the first result of a sequence that is not Ok, or Ok(NoNode)
RECURSIVE FirstFailure(_)
FirstFailure(rs) ==
    IF rs = <<>> THEN Ok(NoNode)
    ELSE IF Head(rs).tag # "Ok" THEN Head(rs)
    ELSE FirstFailure(Tail(rs))

RECURSIVE get_env_expr(_)
get_env_expr(v) ==
    CASE v.kind = "JString" ->
            LET ast == ParseSource(v.sym) IN
            IF ~ast.ok THEN Panic
            ELSE IF ast.body = <<>> THEN Panic
            ELSE IF Head(ast.body).kind = "ExprStmt" THEN Ok(Head(ast.body).kids[1])
            ELSE Err(v.sym)
      [] v.kind = "JBool" -> Ok(Bool(v.sym))
      [] v.kind = "JNumber" -> Ok(Number(v.sym))
      [] v.kind = "JNull" -> Ok(Null)
      [] v.kind = "JArray" ->
            LET rs == [i \in DOMAIN v.kids |-> get_env_expr(v.kids[i])] IN
            IF FirstFailure(rs).tag # "Ok" THEN FirstFailure(rs)
            ELSE Ok(ArrayLit([i \in DOMAIN rs |-> rs[i].expr]))
      [] v.kind = "JObject" ->
            LET rs == [i \in DOMAIN v.kids |-> get_env_expr(v.kids[i].kids[1])] IN
            IF FirstFailure(rs).tag # "Ok" THEN FirstFailure(rs)
            ELSE Ok(ObjectLit([i \in DOMAIN rs |-> KeyValueProp(v.kids[i].sym, rs[i].expr)]))

\* build_env_map iterating the configuration in the order `order`
build_env_map(env_map, order) ==
    LET rs == [i \in DOMAIN order |-> get_env_expr(env_map[order[i]])] IN
    IF FirstFailure(rs).tag # "Ok" THEN FirstFailure(rs)
    ELSE [tag |-> "Ok", map |-> [k \in DOMAIN env_map |-> get_env_expr(env_map[k]).expr], msg |-> ""]

-----------------------------------------------------------------------------
(* EnvReplacer *)

RECURSIVE MetaInsertAll(_, _, _)
MetaInsertAll(e, order, acc) ==
    IF order = <<>> THEN acc
    ELSE LET k == Head(order)
             key == IF k = "NODE_ENV" THEN "MODE" ELSE k
         IN MetaInsertAll(e, Tail(order), Insert(acc, key, e[k]))

\* EnvReplacer::new without the NODE_ENV -> MODE conversion
EnvReplacerNewNoRename(e, order) == e

\* EnvReplacer::new, with envs.iter() yielding the keys in the order `order`
EnvReplacerNew(e, order) == MetaInsertAll(e, order, EmptyMap)

get_env(map, sym) == IF sym \in DOMAIN map THEN Some(map[sym]) ELSE None

\* the replacement of the declaration-set variant: `{}.XX`
EmptyObjectMember(prop) == MemberExpr(ObjectLit(<<>>), prop)

\* the replacement for a process.env / import.meta.env key that is not set
NotFoundReplacement(prop) == Ident("undefined", DUMMY_SP)

\* the body of `handle process.env.XX and import.meta.env.XX`
ReplaceEnvMember(expr, map) ==
    LET prop == expr.kids[2] IN
    CASE prop.kind = "Computed" ->
            IF prop.kids[1].kind = "Str"
            THEN IF get_env(map, prop.kids[1].sym) # None
                 THEN get_env(map, prop.kids[1].sym)[1]
                 ELSE NotFoundReplacement(prop)
            ELSE expr
      [] prop.kind = "PropIdent" ->
            IF get_env(map, prop.sym) # None
            THEN get_env(map, prop.sym)[1]
            ELSE NotFoundReplacement(prop)
      [] OTHER -> expr

\* the object literal built for a bare import.meta.env
MetaEnvObject(self) ==
    ObjectLit([i \in DOMAIN self.meta_iter |->
                  KeyValueProp(self.meta_iter[i], self.meta_envs[self.meta_iter[i]])])

\* whether the `process` of process.env.X is accepted as the global one
IsProcess(first_obj) == first_obj.kind = "Ident" /\ first_obj.sym = "process"

\* the Expr::Member branch of visit_mut_expr, before the children are visited
MemberBranch(expr, self) ==
    IF expr.kind # "Member" THEN expr
    ELSE LET obj == expr.kids[1] IN
         IF obj.kind = "Member" /\ obj.kids[2].kind = "PropIdent" /\ obj.kids[2].sym = "env"
         THEN LET first_obj == obj.kids[1] IN
              IF IsProcess(first_obj) THEN ReplaceEnvMember(expr, self.envs)
              ELSE IF first_obj.kind = "MetaProp" THEN ReplaceEnvMember(expr, self.meta_envs)
              ELSE expr
         ELSE IF obj.kind = "MetaProp" /\ expr.kids[2].kind = "PropIdent" /\ expr.kids[2].sym = "env"
              THEN MetaEnvObject(self)
              ELSE expr

RECURSIVE visit_mut_expr(_, _), visit_mut_children_with(_, _)

visit_mut_children_with(n, self) ==
    [n EXCEPT !.kids = [i \in DOMAIN n.kids |->
        IF n.kids[i].kind \in ExprKinds
        THEN visit_mut_expr(n.kids[i], self)
        ELSE visit_mut_children_with(n.kids[i], self)]]

\* no scope check: every identifier is taken as free
IsBoundNever(expr, self) == FALSE

\* whether an identifier expression is bound, so that the pass leaves it alone
IsBound(expr, self) == expr.ctxt # unresolved_mark

visit_mut_expr(expr, self) ==
    IF expr.kind = "Ident" /\ IsBound(expr, self)
    THEN visit_mut_children_with(expr, self)
    ELSE IF expr.kind = "Ident" /\ get_env(self.envs, expr.sym) # None
    THEN get_env(self.envs, expr.sym)[1]
    ELSE visit_mut_children_with(MemberBranch(expr, self), self)

\* the EnvReplacer, with meta_envs.iter() yielding the keys in the order `iter`
Replacer(e, m, iter) == [envs |-> e, meta_envs |-> m, meta_iter |-> iter]

-----------------------------------------------------------------------------
(* The environment substitution pipeline: build_env_map, EnvReplacer::new,   *)
(* then one run of the visitor over a module expression.                     *)

Keys == {"A", "NODE_ENV", "MODE"}

JAtoms ==
    {JBool("true"), JString("\"foo\""), JString("process.env.MODE"),
     JString("for(;;)console.log()"), JString(""), JString("1;for(;;);"), JString("(")}

JValues ==
    JAtoms
    \cup {JArray(s) : s \in UNION {[1..n -> JAtoms] : n \in 1..MaxElems}}
    \cup {JObject(<<JEntry("k", a)>>) : a \in JAtoms}

\* Only the key A takes arrays and objects; a define value that contains, below its top
\* node, a process.env access to a key whose value again contains one makes
\* the walk descend without end, and is left out.
ValuesFor(k) == IF k = "A" THEN JValues ELSE JAtoms

Configs ==
    UNION {{c \in [S -> JValues] : \A k \in S : c[k] \in ValuesFor(k)} : S \in SUBSET Keys}

Tags == {unresolved_mark, BoundTag}

ModuleAtoms ==
    {Ident(n, t) : n \in Keys, t \in Tags}
    \cup {ProcessEnvDot(n, t) : n \in Keys, t \in Tags}
    \cup {ProcessEnvBracket(n, t) : n \in Keys, t \in Tags}
    \cup {ImportMetaEnvDot(n) : n \in Keys}
    \cup {ImportMetaEnvBracket(n) : n \in Keys}
    \cup {ImportMetaEnv,
          MemberExpr(MemberExpr(Ident("process", unresolved_mark), PropIdent("env")),
                     ComputedPropName(Ident("A", unresolved_mark))),
          MemberExpr(MemberExpr(Ident("other", unresolved_mark), PropIdent("env")),
                     PropIdent("A"))}

Log(args) == CallExpr(Ident("log", unresolved_mark), args)

Modules ==
    ModuleAtoms
    \cup {Log(<<a>>) : a \in ModuleAtoms}
    \cup {Log(<<Ident("A", unresolved_mark), Ident("A", BoundTag)>>),
          Log(<<Ident("A", BoundTag), ProcessEnvDot("A", unresolved_mark)>>)}

EnvIdle ==
    /\ pc = "idle"
    /\ config = EmptyMap
    /\ envs = EmptyMap
    /\ meta_envs = EmptyMap
    /\ module = NoNode
    /\ output = NoNode
    /\ define_error = ""

InjIdle ==
    /\ ipc = "idle"
    /\ inj_config = EmptyMap
    /\ in_body = <<>>
    /\ injects = EmptyMap
    /\ will_inject = <<>>
    /\ is_cjs = TRUE
    /\ body = <<>>

NoQuery == [id |-> "", deps |-> <<>>]

GraphIdle ==
    /\ gpc = "idle"
    /\ nodes = <<>>
    /\ edges = <<>>
    /\ id_index_map = EmptyMap
    /\ entries = {}
    /\ last_deps = NoQuery
    /\ last_call = EmptyMap
    /\ n_ops = 0
    /\ added = <<>>

InitEnv ==
    /\ pc = "start"
    /\ config \in Configs
    /\ envs = EmptyMap
    /\ meta_envs = EmptyMap
    /\ module = NoNode
    /\ output = NoNode
    /\ define_error = ""
    /\ InjIdle
    /\ GraphIdle

BuildEnvMap ==
    /\ pc = "start"
    /\ \E order \in IterOrders(DOMAIN config) :
          LET r == build_env_map(config, order) IN
          /\ pc' = CASE r.tag = "Ok" -> "built"
                      [] r.tag = "Err" -> "config_error"
                      [] OTHER -> "panicked"
          /\ envs' = IF r.tag = "Ok" THEN r.map ELSE envs
          /\ define_error' = IF r.tag = "Err" THEN r.msg ELSE define_error
    /\ UNCHANGED <<config, meta_envs, module, output, injVars, graphVars>>

New ==
    /\ pc = "built"
    /\ \E order \in IterOrders(DOMAIN envs) : meta_envs' = EnvReplacerNew(envs, order)
    /\ pc' = "ready"
    /\ UNCHANGED <<config, envs, module, output, define_error, injVars, graphVars>>

VisitMutExpr ==
    /\ pc = "ready"
    /\ \E m \in Modules, iter \in IterOrders(DOMAIN meta_envs) :
          /\ module' = m
          /\ output' = visit_mut_expr(m, Replacer(envs, meta_envs, iter))
    /\ pc' = "done"
    /\ UNCHANGED <<config, envs, meta_envs, define_error, injVars, graphVars>>

NextEnv == BuildEnvMap \/ New \/ VisitMutExpr

SpecEnv == InitEnv /\ [][NextEnv]_vars

-----------------------------------------------------------------------------
(* Properties of the environment substitution pass *)

Undefined == Ident("undefined", DUMMY_SP)

\* what the configured replacer rewrites the expression e to
RewriteOf(e) ==
    visit_mut_expr(e, Replacer(envs, meta_envs, CHOOSE i \in IterOrders(DOMAIN meta_envs) : TRUE))

\* C1: substitution respects shadowing. In every module, for every key k of
\* the environment map, an identifier expression named k that carries the
\* free tag is replaced by the literal of k, and one that carries a bound tag
\* is left as it was.
C1_ShadowingRespected ==
    pc = "done" =>
        \A p \in Paths(module) :
            LET n == At(module, p) IN
            (n.kind = "Ident" /\ n.sym \in DOMAIN envs) =>
                IF n.ctxt = unresolved_mark
                THEN At(output, p) = envs[n.sym]
                ELSE At(output, p) = n

C1_Witness ==
    /\ pc = "done"
    /\ "A" \in DOMAIN envs
    /\ module = Log(<<Ident("A", unresolved_mark), Ident("A", BoundTag)>>)
    /\ output = Log(<<envs["A"], Ident("A", BoundTag)>>)

\* C2: for every entry k -> literal of the environment map, process.env.k,
\* process.env["k"] and the bare free identifier k are all rewritten to literal.
C2_AllFormsYieldLiteral ==
    pc = "done" =>
        \A k \in DOMAIN envs :
            module \in {ProcessEnvDot(k, unresolved_mark),
                        ProcessEnvBracket(k, unresolved_mark),
                        Ident(k, unresolved_mark)}
            => output = envs[k]

\* C3: for every name N that is not a key of the environment map, process.env.N
\* and process.env["N"] are rewritten to the identifier undefined, and for every
\* N that is not a key of the meta map so are import.meta.env.N and
\* import.meta.env["N"].
C3_UnsetKeyYieldsUndefined ==
    pc = "done" =>
        \A n \in Keys :
            /\ (n \notin DOMAIN envs
                 /\ module \in {ProcessEnvDot(n, unresolved_mark),
                                ProcessEnvBracket(n, unresolved_mark)})
               => output = Undefined
            /\ (n \notin DOMAIN meta_envs
                 /\ module \in {ImportMetaEnvDot(n), ImportMetaEnvBracket(n)})
               => output = Undefined

C3_Witness ==
    /\ pc = "done"
    /\ "A" \notin DOMAIN envs
    /\ module = Log(<<ProcessEnvDot("A", unresolved_mark)>>)
    /\ output = Log(<<Undefined>>)

\* C4 as stated: whenever the environment map defines NODE_ENV,
\* import.meta.env.NODE_ENV and import.meta.env.MODE are rewritten to the same
\* literal, the one process.env.NODE_ENV is rewritten to.
C4_MetaNodeEnvSameAsMode ==
    (pc = "done" /\ "NODE_ENV" \in DOMAIN envs) =>
        (module \in {ImportMetaEnvDot("NODE_ENV"), ImportMetaEnvBracket("NODE_ENV"),
                     ImportMetaEnvDot("MODE"), ImportMetaEnvBracket("MODE")}
         => output = RewriteOf(ProcessEnvDot("NODE_ENV", unresolved_mark)))

\* C4 as amended: whenever the environment map defines NODE_ENV,
\* import.meta.env.NODE_ENV is rewritten to undefined (the meta map holds the
\* entry under MODE only), and import.meta.env.MODE is rewritten to what
\* process.env.NODE_ENV is rewritten to or, when the map defines MODE as well,
\* to what one of process.env.NODE_ENV and process.env.MODE is rewritten to.
C4_MetaModeIsNodeEnv ==
    (pc = "done" /\ "NODE_ENV" \in DOMAIN envs) =>
        /\ module \in {ImportMetaEnvDot("NODE_ENV"), ImportMetaEnvBracket("NODE_ENV")}
           => output = Undefined
        /\ module \in {ImportMetaEnvDot("MODE"), ImportMetaEnvBracket("MODE")}
           => \/ output = RewriteOf(ProcessEnvDot("NODE_ENV", unresolved_mark))
              \/ /\ "MODE" \in DOMAIN envs
                 /\ output = RewriteOf(ProcessEnvDot("MODE", unresolved_mark))

C4_Witness ==
    /\ pc = "done"
    /\ "NODE_ENV" \in DOMAIN envs
    /\ "MODE" \notin DOMAIN envs
    /\ module = ImportMetaEnvDot("MODE")
    /\ output = envs["NODE_ENV"]
    /\ output # Undefined

\* C5: a bare import.meta.env is rewritten to an object literal with exactly
\* one key/value property per entry of the meta map, holding that entry's key
\* and literal, and no other property.
C5_MetaEnvObjectIsMetaMap ==
    (pc = "done" /\ module = ImportMetaEnv) =>
        /\ output.kind = "Object"
        /\ Len(output.kids) = Cardinality(DOMAIN meta_envs)
        /\ \A k \in DOMAIN meta_envs :
              \E i \in DOMAIN output.kids : output.kids[i] = KeyValueProp(k, meta_envs[k])

\* whether the source text parses to exactly one statement, an expression
\* statement
IsSingleExprSource(src) ==
    LET ast == ParseSource(src) IN
    ast.ok /\ Len(ast.body) = 1 /\ ast.body[1].kind = "ExprStmt"

\* the source texts of the string values of a define value, at any depth,
\* that are not a single expression statement
RECURSIVE BadSources(_)
BadSources(v) ==
    IF v.kind = "JString" THEN (IF IsSingleExprSource(v.sym) THEN {} ELSE {v.sym})
    ELSE UNION {BadSources(v.kids[i]) : i \in DOMAIN v.kids}

ConfigBadSources == UNION {BadSources(config[k]) : k \in DOMAIN config}

\* C12: for every configuration that holds, at top level or inside an array or
\* object, a string value whose source is not exactly one expression statement,
\* build_env_map returns the invalid-define-value error naming such a source
\* text; it neither accepts the configuration nor panics.
C12_BadDefineValueIsError ==
    (pc # "start" /\ ConfigBadSources # {}) =>
        /\ pc = "config_error"
        /\ define_error \in ConfigBadSources

\* C17: the process.env rewrite applies only where process is free. In every
\* module, a member access process.env.N or process.env["N"] whose process
\* identifier carries a bound tag is left as it was.
C17_BoundProcessUntouched ==
    pc = "done" =>
        \A p \in Paths(module) :
            LET n == At(module, p) IN
            (\E k \in Keys : n \in {ProcessEnvDot(k, BoundTag), ProcessEnvBracket(k, BoundTag)})
                => At(output, p) = n

\* the values the pass may put in place of node n when n is one of the
\* replaced forms (a free identifier that is a key, process.env.N with a free
\* process, import.meta.env.N, a bare import.meta.env); empty for other nodes
ReplacementsOf(n) ==
    IF n.kind = "Ident"
    THEN (IF n.ctxt = unresolved_mark /\ n.sym \in DOMAIN envs THEN {envs[n.sym]} ELSE {})
    ELSE IF n = ImportMetaEnv
    THEN {MetaEnvObject(Replacer(envs, meta_envs, iter)) : iter \in IterOrders(DOMAIN meta_envs)}
    ELSE {IF k \in DOMAIN envs THEN envs[k] ELSE Undefined :
              k \in {x \in Keys : n \in {ProcessEnvDot(x, unresolved_mark),
                                        ProcessEnvBracket(x, unresolved_mark)}}}
         \cup {IF k \in DOMAIN meta_envs THEN meta_envs[k] ELSE Undefined :
              k \in {x \in Keys : n \in {ImportMetaEnvDot(x), ImportMetaEnvBracket(x)}}}

\* the positions of the module below no replaced node
Outermost(p) ==
    \A l \in 0..(Len(p) - 1) : ReplacementsOf(At(module, SubSeq(p, 1, l))) = {}

\* C18: replaced nodes are not re-visited. Every node of the module that is of
\* a replaced form and lies below no other replaced node is, in the output,
\* exactly the value of the map put in its place: the walk visits every
\* sub-expression that was not replaced and substitutes nothing inside an
\* inserted value.
C18_InsertedValueNotRevisited ==
    pc = "done" =>
        \A p \in Paths(module) :
            (ReplacementsOf(At(module, p)) # {} /\ Outermost(p))
                => At(output, p) \in ReplacementsOf(At(module, p))

-----------------------------------------------------------------------------
(* The dependency injection pass: MyInjector and Inject *)

BindingIdent(sym, ctxt) == Node("BindingIdent", sym, ctxt, <<>>)
VarDecl(kind, name, init) == Node("VarDecl", kind, DUMMY_SP, <<name, init>>)
\* src = "" stands for NamedExport.src = None
NamedExport(specifiers, src) == Node("NamedExport", src, DUMMY_SP, specifiers)
ExportNamedSpecifier(orig, exported) == Node("ExportNamedSpecifier", "", DUMMY_SP, <<orig>> \o exported)
ExportNamespaceSpecifier(name) == Node("ExportNamespaceSpecifier", "", DUMMY_SP, <<name>>)
ImportDecl(specifiers, src) == Node("ImportDecl", src, DUMMY_SP, specifiers)
ImportNamedSpecifier(local, imported) == Node("ImportNamedSpecifier", "", DUMMY_SP, <<local>> \o imported)
ImportStarAsSpecifier(local) == Node("ImportStarAsSpecifier", "", DUMMY_SP, <<local>>)
ImportDefaultSpecifier(local) == Node("ImportDefaultSpecifier", "", DUMMY_SP, <<local>>)
PanicItem == Node("Panic", "Cannot use both named and namespaced", DUMMY_SP, <<>>)

\* the node kinds that are swc Ident nodes, i.e. reach visit_mut_ident
IdentKinds == {"Ident", "BindingIdent", "PropIdent"}
\* the top-level items that are ModuleItem::ModuleDecl
ModuleDeclKinds == {"NamedExport", "ImportDecl"}

Inject(from, name, named, namespace, prefer_require) ==
    [from |-> from, name |-> name, named |-> named, namespace |-> namespace,
     exclude |-> None, prefer_require |-> prefer_require]

RECURSIVE Flatten(_)
Flatten(ss) == IF ss = <<>> THEN <<>> ELSE Head(ss) \o Flatten(Tail(ss))

RECURSIVE IdentVisits(_)

\* the generated walk of a named export: every specifier, every identifier
visit_named_export_children(named_export) ==
    Flatten([i \in DOMAIN named_export.kids |-> IdentVisits(named_export.kids[i])])

\* the identifiers visit_mut_named_export hands to visit_mut_ident, in order
visit_mut_named_export(named_export) ==
    IF named_export.sym # ""
    THEN Flatten([i \in DOMAIN named_export.kids |-> IdentVisits(named_export.kids[i])])
    ELSE Flatten([i \in DOMAIN named_export.kids |->
            LET spec == named_export.kids[i] IN
            IF spec.kind = "ExportNamedSpecifier"
            THEN IdentVisits(spec.kids[1])
            ELSE IdentVisits(spec)])

\* the identifiers the walk of node n hands to visit_mut_ident, in order
IdentVisits(n) ==
    IF n.kind \in IdentKinds THEN <<n>>
    ELSE IF n.kind = "NamedExport" THEN visit_mut_named_export(n)
    ELSE Flatten([i \in DOMAIN n.kids |-> IdentVisits(n.kids[i])])

\* an insertion that puts the new element in front
IndexSetInsertFront(set, inject, ctxt) ==
    IF \E i \in DOMAIN set : set[i][1].name = inject.name /\ set[i][2] = ctxt
    THEN set
    ELSE <<(<<inject, ctxt>>)>> \o set

\* IndexSet::insert of (inject, ctxt); Inject is compared by name
IndexSetInsert(set, inject, ctxt) ==
    IF \E i \in DOMAIN set : set[i][1].name = inject.name /\ set[i][2] = ctxt
    THEN set
    ELSE Append(set, <<inject, ctxt>>)

Remove(map, k) == [x \in DOMAIN map \ {k} |-> map[x]]

\* every identifier is taken as unresolved
IsUnresolvedAlways(n) == TRUE

\* n.span.ctxt.outer() == self.unresolved_mark
IsUnresolved(n) == n.ctxt = unresolved_mark

\* visit_mut_ident on the injector state st = [injects, will_inject]
visit_mut_ident(st, n) ==
    IF DOMAIN st.injects = {} THEN st
    ELSE IF IsUnresolved(n) /\ n.sym \in DOMAIN st.injects
    THEN [injects |-> Remove(st.injects, n.sym),
          will_inject |-> IndexSetInsert(st.will_inject, st.injects[n.sym], n.ctxt)]
    ELSE st

RECURSIVE VisitIdents(_, _)
VisitIdents(st, idents) ==
    IF idents = <<>> THEN st
    ELSE VisitIdents(visit_mut_ident(st, Head(idents)), Tail(idents))

\* is_cjs is left at the value MyInjector::new gives it
IsCjsUnset(module_items) == TRUE

\* the is_cjs that visit_mut_module_items computes
IsCjs(module_items) ==
    ~(\E i \in DOMAIN module_items : module_items[i].kind \in ModuleDeclKinds)

\* the require call built with a callee that carries no mark
RequireSourceExprUnmarked(from) == CallExpr(Ident("require", DUMMY_SP), <<Str(from)>>)

RequireSourceExpr(from) == CallExpr(Ident("require", unresolved_mark), <<Str(from)>>)

into_require_with(self, ctxt) ==
    LET name == BindingIdent(self.name, ctxt) IN
    CASE self.named # None /\ self.namespace \in {None, Some(FALSE)} ->
            VarDecl("var", name, MemberExpr(RequireSourceExpr(self.from), PropIdent(self.named[1])))
      [] self.named = None /\ self.namespace = Some(TRUE) ->
            VarDecl("var", name, RequireSourceExpr(self.from))
      [] self.named = None /\ self.namespace \in {None, Some(FALSE)} ->
            VarDecl("var", name, MemberExpr(RequireSourceExpr(self.from), PropIdent("default")))
      [] OTHER -> PanicItem

\* into_with writing the `imported as local` clause for every named selector
into_with_always_as(self, ctxt) ==
    LET local == BindingIdent(self.name, ctxt) IN
    CASE self.named # None /\ self.namespace \in {None, Some(FALSE)} ->
            ImportDecl(<<ImportNamedSpecifier(local, Some(Ident(self.named[1], DUMMY_SP)))>>,
                       self.from)
      [] self.named = None /\ self.namespace = Some(TRUE) ->
            ImportDecl(<<ImportStarAsSpecifier(local)>>, self.from)
      [] self.named = None /\ self.namespace \in {None, Some(FALSE)} ->
            ImportDecl(<<ImportDefaultSpecifier(local)>>, self.from)
      [] OTHER -> PanicItem

into_with(self, ctxt) ==
    LET local == BindingIdent(self.name, ctxt) IN
    CASE self.named # None /\ self.namespace \in {None, Some(FALSE)} ->
            ImportDecl(<<ImportNamedSpecifier(local,
                            IF self.named[1] = self.name THEN None
                            ELSE Some(Ident(self.named[1], DUMMY_SP)))>>, self.from)
      [] self.named = None /\ self.namespace = Some(TRUE) ->
            ImportDecl(<<ImportStarAsSpecifier(local)>>, self.from)
      [] self.named = None /\ self.namespace \in {None, Some(FALSE)} ->
            ImportDecl(<<ImportDefaultSpecifier(local)>>, self.from)
      [] OTHER -> PanicItem

\* the statement synthesized for one pending injection
InjectedStmt(inject, ctxt, cjs) ==
    IF cjs \/ inject.prefer_require
    THEN into_require_with(inject, ctxt)
    ELSE into_with(inject, ctxt)

\* visit_mut_module: the walk, then the splice of the synthesized statements
visit_mut_module(items, watch) ==
    LET cjs == IsCjs(items)
        st == VisitIdents([injects |-> watch, will_inject |-> <<>>],
                          Flatten([i \in DOMAIN items |-> IdentVisits(items[i])]))
        stmts == [i \in DOMAIN st.will_inject |->
                     InjectedStmt(st.will_inject[i][1], st.will_inject[i][2], cjs)]
        panicked == \E i \in DOMAIN stmts : stmts[i] = PanicItem
    IN [injects |-> st.injects, will_inject |-> st.will_inject, is_cjs |-> cjs,
        panicked |-> panicked,
        body |-> IF panicked THEN items ELSE stmts \o items]

\* Dependency analysis of a rewritten tree: the target specifiers, in walk
\* order, of the import and export-from declarations and of the calls
\* require("x") whose callee is the unresolved `require`.
RECURSIVE analyze_deps_node(_)
analyze_deps_node(n) ==
    IF n.kind = "ImportDecl" THEN <<n.sym>>
    ELSE IF n.kind = "NamedExport" /\ n.sym # "" THEN <<n.sym>>
    ELSE IF /\ n.kind = "Call"
            /\ Len(n.kids) = 2
            /\ n.kids[1] = Ident("require", unresolved_mark)
            /\ n.kids[2].kind = "Str"
    THEN <<n.kids[2].sym>>
    ELSE Flatten([i \in DOMAIN n.kids |-> analyze_deps_node(n.kids[i])])

analyze_deps(items) == Flatten([i \in DOMAIN items |-> analyze_deps_node(items[i])])

-----------------------------------------------------------------------------
(* One run of the injection pass over a module *)

Watched == {"my", "her"}

Toast(obj) == ExprStmt(CallExpr(MemberExpr(obj, PropIdent("call")), <<Str("toast")>>))

Items ==
    {Toast(Ident("my", unresolved_mark)),
     Toast(Ident("my", BoundTag)),
     ExprStmt(MemberExpr(Ident("her", unresolved_mark), PropIdent("my"))),
     VarDecl("let", BindingIdent("my", BoundTag), Number("1")),
     NamedExport(<<>>, ""),
     NamedExport(<<ExportNamedSpecifier(Ident("foo", BoundTag),
                                        Some(Ident("my", unresolved_mark)))>>, ""),
     NamedExport(<<ExportNamedSpecifier(Ident("her", unresolved_mark),
                                        Some(Ident("foo", DUMMY_SP)))>>, ""),
     NamedExport(<<ExportNamedSpecifier(Ident("foo", DUMMY_SP),
                                        Some(Ident("my", DUMMY_SP)))>>, "lib")}

Bodies == UNION {[1..n -> Items] : n \in 0..MaxItems}

InjectsFor(name) ==
    IF name = "my"
    THEN {Inject("mock-lib", name, nd, ns, pr) :
            nd \in {None, Some("her"), Some("my")},
            ns \in {None, Some(TRUE), Some(FALSE)},
            pr \in BOOLEAN}
    ELSE {Inject("her-lib", name, None, None, pr) : pr \in BOOLEAN}

WatchMaps ==
    UNION {{w \in [S -> UNION {InjectsFor(n) : n \in Watched}] :
               \A n \in S : w[n] \in InjectsFor(n)} : S \in SUBSET Watched}

InitInject ==
    /\ ipc = "start"
    /\ inj_config \in WatchMaps
    /\ in_body \in Bodies
    /\ injects = inj_config
    /\ will_inject = <<>>
    /\ is_cjs = TRUE
    /\ body = in_body
    /\ EnvIdle
    /\ GraphIdle

VisitMutModule ==
    /\ ipc = "start"
    /\ LET r == visit_mut_module(in_body, inj_config) IN
       /\ injects' = r.injects
       /\ will_inject' = r.will_inject
       /\ is_cjs' = r.is_cjs
       /\ body' = r.body
       /\ ipc' = IF r.panicked THEN "panicked" ELSE "done"
    /\ UNCHANGED <<inj_config, in_body, envVars, graphVars>>

NextInject == VisitMutModule

SpecInject == InitInject /\ [][NextInject]_vars

-----------------------------------------------------------------------------
(* Properties of the injection pass *)

ModuleNode(items) == Node("Module", "", DUMMY_SP, items)

\* whether path p of root is the exported alias y of a local `export { x as y }`
IsExportAlias(root, p) ==
    /\ Len(p) >= 2
    /\ p[Len(p)] = 2
    /\ At(root, SubSeq(p, 1, Len(p) - 1)).kind = "ExportNamedSpecifier"
    /\ At(root, SubSeq(p, 1, Len(p) - 2)).kind = "NamedExport"
    /\ At(root, SubSeq(p, 1, Len(p) - 2)).sym = ""

\* the identifier positions of the module named w that carry the free tag
FreeNamed(w) ==
    {p \in Paths(ModuleNode(in_body)) :
        LET n == At(ModuleNode(in_body), p) IN
        n.kind \in IdentKinds /\ n.sym = w /\ n.ctxt = unresolved_mark}

\* the free occurrences of w: the exported alias of a local named export is none
FreeOccurrences(w) == {p \in FreeNamed(w) : ~IsExportAlias(ModuleNode(in_body), p)}
AliasOccurrences(w) == {p \in FreeNamed(w) : IsExportAlias(ModuleNode(in_body), p)}

\* the statements the pass put in front of the original items
InjectedStmts == SubSeq(body, 1, Len(body) - Len(in_body))

\* the local a synthesized statement binds
LocalName(stmt) ==
    IF stmt.kind = "VarDecl" THEN stmt.kids[1].sym ELSE stmt.kids[1].kids[1].sym

InjectedFor(w) == {i \in DOMAIN InjectedStmts : LocalName(InjectedStmts[i]) = w}

HasEsm(items) == \E i \in DOMAIN items : items[i].kind \in {"NamedExport", "ImportDecl"}

IsRequireDecl(stmt, from) ==
    /\ stmt.kind = "VarDecl"
    /\ \/ stmt.kids[2] = RequireSourceExpr(from)
       \/ stmt.kids[2].kind = "Member" /\ stmt.kids[2].kids[1] = RequireSourceExpr(from)

\* C6: injection count per watched name. When the pass completes, the original
\* items stay in place behind the injected statements; a watched name with no
\* free occurrence gets no statement, one with one or more free occurrences
\* gets exactly one; and when no watched name occurs free the body is unchanged.
C6_OneInjectionPerUsedName ==
    ipc = "done" =>
        /\ Len(body) >= Len(in_body)
        /\ SubSeq(body, Len(body) - Len(in_body) + 1, Len(body)) = in_body
        /\ \A i \in DOMAIN InjectedStmts : LocalName(InjectedStmts[i]) \in DOMAIN inj_config
        /\ \A w \in DOMAIN inj_config :
              Cardinality(InjectedFor(w)) = IF FreeOccurrences(w) = {} THEN 0 ELSE 1
        /\ (\A w \in DOMAIN inj_config : FreeOccurrences(w) = {}) => body = in_body

C6_Witness ==
    /\ ipc = "done"
    /\ "my" \in DOMAIN inj_config
    /\ in_body = <<Toast(Ident("my", unresolved_mark)), Toast(Ident("my", unresolved_mark))>>
    /\ Cardinality(FreeOccurrences("my")) = 2
    /\ Len(body) = 3
    /\ LocalName(body[1]) = "my"

\* C7: format selection. Every injected statement is a require-based variable
\* declaration when the module's top level holds no import/export declaration
\* or its spec sets prefer_require, and an import declaration otherwise.
C7_FormatSelection ==
    ipc = "done" =>
        \A i \in DOMAIN InjectedStmts :
            LET stmt == InjectedStmts[i]
                inject == inj_config[LocalName(stmt)]
            IN IF ~HasEsm(in_body) \/ inject.prefer_require
               THEN IsRequireDecl(stmt, inject.from)
               ELSE stmt.kind = "ImportDecl" /\ stmt.sym = inject.from

C7_Witness ==
    /\ ipc = "done"
    /\ in_body = <<Toast(Ident("my", unresolved_mark)), NamedExport(<<>>, "")>>
    /\ "my" \in DOMAIN inj_config
    /\ ~inj_config["my"].prefer_require
    /\ Len(body) = 3
    /\ body[1].kind = "ImportDecl"

\* C8: named-export aliasing never triggers injection. When a watched name y
\* occurs as the exported alias of a local `export { x as y }` and has no other
\* free use in the module, no statement is injected for y and the spec of y is
\* still in the watch map after the pass.
C8_ExportAliasNotInjected ==
    ipc = "done" =>
        \A y \in DOMAIN inj_config :
            (AliasOccurrences(y) # {} /\ FreeOccurrences(y) = {}) =>
                /\ InjectedFor(y) = {}
                /\ y \in DOMAIN injects
                /\ injects[y] = inj_config[y]

C8_Witness ==
    /\ ipc = "done"
    /\ "my" \in DOMAIN inj_config
    /\ in_body = <<VarDecl("let", BindingIdent("my", BoundTag), Number("1")),
                   NamedExport(<<ExportNamedSpecifier(Ident("foo", BoundTag),
                                                      Some(Ident("my", unresolved_mark)))>>, "")>>
    /\ AliasOccurrences("my") # {}
    /\ body = in_body
    /\ "my" \in DOMAIN injects

\* whether an Inject asks for a named selector and the namespace selector
BothSelectors(inject) == inject.named # None /\ inject.namespace = Some(TRUE)

\* C13: a spec with both a named selector and the namespace selector fails
\* fast. Whenever the watch map holds such a spec, the run of the pass fails,
\* whichever form the module calls for, and no statement is put in the body.
C13_BothSelectorsFailFast ==
    (ipc # "start" /\ \E w \in DOMAIN inj_config : BothSelectors(inj_config[w])) =>
        /\ ipc = "panicked"
        /\ body = in_body

\* C14: every injected statement makes its source module a dependency of the
\* rewritten module. Dependency analysis of each injected statement reports
\* exactly one dependency, on the source module of its spec (the callee of a
\* synthesized require call carries the unresolved tag), and analysis of the
\* rewritten body reports these in front of the dependencies of the original
\* items.
C14_InjectedSourceIsDependency ==
    ipc = "done" =>
        /\ \A i \in DOMAIN InjectedStmts :
              analyze_deps(<<InjectedStmts[i]>>)
                  = <<inj_config[LocalName(InjectedStmts[i])].from>>
        /\ analyze_deps(body)
              = [i \in DOMAIN InjectedStmts |-> inj_config[LocalName(InjectedStmts[i])].from]
                \o analyze_deps(in_body)

C14_Witness ==
    /\ ipc = "done"
    /\ in_body = <<Toast(Ident("my", unresolved_mark))>>
    /\ "my" \in DOMAIN inj_config
    /\ inj_config["my"].named = None
    /\ inj_config["my"].namespace = Some(TRUE)
    /\ body[1] = VarDecl("var", BindingIdent("my", unresolved_mark),
                         CallExpr(Ident("require", unresolved_mark), <<Str("mock-lib")>>))
    /\ analyze_deps(body) = <<"mock-lib">>

\* the selector of an Inject: "named", "namespace" or "default"
Selector(inject) ==
    IF inject.named # None THEN "named"
    ELSE IF inject.namespace = Some(TRUE) THEN "namespace"
    ELSE "default"

\* C15: the shape of an injected statement is fixed by the selector of its
\* spec and the bound local is always the spec's name. In require form the
\* initializer is require(from).default without selector, require(from).imported
\* with a named selector and require(from) with the namespace selector; in
\* import form the one specifier is a default import, a named import that
\* writes `imported as name` only when imported differs from name, or a
\* namespace import.
C15_StatementShape ==
    ipc = "done" =>
        /\ Len(InjectedStmts) = Len(will_inject)
        /\ \A i \in DOMAIN InjectedStmts :
              LET stmt == InjectedStmts[i]
                  inject == will_inject[i][1]
                  sel == Selector(inject)
                  req == Node("Call", "", DUMMY_SP,
                              <<Ident("require", unresolved_mark), Str(inject.from)>>)
              IN /\ stmt.kind \in {"VarDecl", "ImportDecl"}
                 /\ stmt.kind = "VarDecl" =>
                       /\ stmt.sym = "var"
                       /\ stmt.kids[1].kind = "BindingIdent"
                       /\ stmt.kids[1].sym = inject.name
                       /\ sel = "default" => stmt.kids[2] = MemberExpr(req, PropIdent("default"))
                       /\ sel = "named" => stmt.kids[2] = MemberExpr(req, PropIdent(inject.named[1]))
                       /\ sel = "namespace" => stmt.kids[2] = req
                 /\ stmt.kind = "ImportDecl" =>
                       /\ stmt.sym = inject.from
                       /\ Len(stmt.kids) = 1
                       /\ stmt.kids[1].kids[1].kind = "BindingIdent"
                       /\ stmt.kids[1].kids[1].sym = inject.name
                       /\ sel = "default" =>
                             /\ stmt.kids[1].kind = "ImportDefaultSpecifier"
                             /\ Len(stmt.kids[1].kids) = 1
                       /\ sel = "namespace" =>
                             /\ stmt.kids[1].kind = "ImportStarAsSpecifier"
                             /\ Len(stmt.kids[1].kids) = 1
                       /\ sel = "named" =>
                             /\ stmt.kids[1].kind = "ImportNamedSpecifier"
                             /\ IF inject.named[1] = inject.name
                                THEN Len(stmt.kids[1].kids) = 1
                                ELSE /\ Len(stmt.kids[1].kids) = 2
                                     /\ stmt.kids[1].kids[2].kind = "Ident"
                                     /\ stmt.kids[1].kids[2].sym = inject.named[1]

C15_Witness ==
    /\ ipc = "done"
    /\ in_body = <<Toast(Ident("my", unresolved_mark)), NamedExport(<<>>, "")>>
    /\ "my" \in DOMAIN inj_config
    /\ inj_config["my"].named = Some("her")
    /\ ~inj_config["my"].prefer_require
    /\ body[1] = ImportDecl(<<ImportNamedSpecifier(BindingIdent("my", unresolved_mark),
                                                   Some(Ident("her", DUMMY_SP)))>>, "mock-lib")

\* whether position p comes before position q in the walk of the tree
RECURSIVE PathLess(_, _)
PathLess(p, q) ==
    IF p = <<>> THEN q # <<>>
    ELSE IF q = <<>> THEN FALSE
    ELSE IF Head(p) # Head(q) THEN Head(p) < Head(q)
    ELSE PathLess(Tail(p), Tail(q))

\* the first free occurrence of w met by the walk
FirstOccurrence(w) ==
    CHOOSE p \in FreeOccurrences(w) : \A q \in FreeOccurrences(w) : p = q \/ PathLess(p, q)

\* C19: when several watched names are used free in a module, the injected
\* statements stand in front of all original items, one for each used name, in
\* the order in which the walk met the first free occurrence of each name, and
\* the original items follow unchanged, in their order, none removed.
C19_InjectionOrder ==
    ipc = "done" =>
        /\ Len(body) >= Len(in_body)
        /\ body = InjectedStmts \o in_body
        /\ {LocalName(InjectedStmts[i]) : i \in DOMAIN InjectedStmts}
              = {w \in DOMAIN inj_config : FreeOccurrences(w) # {}}
        /\ \A i, j \in DOMAIN InjectedStmts :
              i < j => PathLess(FirstOccurrence(LocalName(InjectedStmts[i])),
                                FirstOccurrence(LocalName(InjectedStmts[j])))

C19_Witness ==
    /\ ipc = "done"
    /\ in_body = <<ExprStmt(MemberExpr(Ident("her", unresolved_mark), PropIdent("my"))),
                   Toast(Ident("my", unresolved_mark))>>
    /\ DOMAIN inj_config = {"my", "her"}
    /\ Len(body) = 4
    /\ LocalName(body[1]) = "her"
    /\ LocalName(body[2]) = "my"
    /\ SubSeq(body, 3, 4) = in_body

-----------------------------------------------------------------------------
(* ModuleGraph *)

Module(id, is_entry, info) == [id |-> id, is_entry |-> is_entry, info |-> info]
Dependency(order) == [order |-> order]
Edge(source, target, weight) == [source |-> source, target |-> target, weight |-> weight]

RECURSIVE Reverse(_)
Reverse(s) == IF s = <<>> THEN <<>> ELSE Append(Reverse(Tail(s)), Head(s))

Min(S) == CHOOSE x \in S : \A y \in S : x <= y
Max(S) == CHOOSE x \in S : \A y \in S : x >= y

\* StableDiGraph::add_edge: a new edge, whatever edges there are
add_edge(es, a, b, weight) == Append(es, Edge(a, b, weight))

\* StableDiGraph::update_edge
update_edge(es, a, b, weight) ==
    IF \E i \in DOMAIN es : es[i].source = a /\ es[i].target = b
    THEN [i \in DOMAIN es |->
            IF es[i].source = a /\ es[i].target = b
            THEN Edge(a, b, weight)
            ELSE es[i]]
    ELSE Append(es, Edge(a, b, weight))

\* neighbors_directed(i, Outgoing).detach(): the edges leaving node i, the
\* most recently added first
OutgoingWalk(es, i) == Reverse(SelectSeq(es, LAMBDA e : e.source = i))

RECURSIVE SortByKeys(_, _)
SortByKeys(deps, keys) ==
    IF keys = {} THEN <<>>
    ELSE LET m == Min(keys) IN
         SelectSeq(deps, LAMBDA d : d[2].order = m) \o SortByKeys(deps, keys \ {m})

\* the dependencies left in the order of the walk
unsorted(deps) == deps

\* deps.sort_by_key(|(_, dep)| dep.order): a stable sort
sort_by_key(deps) == SortByKeys(deps, {deps[i][2].order : i \in DOMAIN deps})

\* add_module with the map insertion moved under `if is_entry`
add_module_map_entry_only(ns, map, ents, m) ==
    LET idx == Len(ns) + 1 IN
    [nodes |-> Append(ns, m),
     id_index_map |-> IF m.is_entry THEN Insert(map, m.id, idx) ELSE map,
     entries |-> IF m.is_entry THEN ents \cup {m.id} ELSE ents]

\* add_module that overwrites the node of an id that is already registered
add_module_replace(ns, map, ents, m) ==
    IF m.id \in DOMAIN map
    THEN [nodes |-> [ns EXCEPT ![map[m.id]] = m],
          id_index_map |-> map,
          entries |-> IF m.is_entry THEN ents \cup {m.id} ELSE ents]
    ELSE [nodes |-> Append(ns, m),
          id_index_map |-> Insert(map, m.id, Len(ns) + 1),
          entries |-> IF m.is_entry THEN ents \cup {m.id} ELSE ents]

\* add_module on the graph (ns, map, ents): add_node appends a node, the map
\* entry of the id is set to its index
add_module(ns, map, ents, m) ==
    LET idx == Len(ns) + 1 IN
    [nodes |-> Append(ns, m),
     id_index_map |-> Insert(map, m.id, idx),
     entries |-> IF m.is_entry THEN ents \cup {m.id} ELSE ents]

has_module(map, module_id) == module_id \in DOMAIN map

get_module(ns, map, module_id) ==
    IF module_id \in DOMAIN map THEN Some(ns[map[module_id]]) ELSE None

get_module_ids(ns) == [i \in DOMAIN ns |-> ns[i].id]

\* get_dependencies for a registered module_id
get_dependencies(ns, es, map, module_id) ==
    LET walk == OutgoingWalk(es, map[module_id]) IN
    sort_by_key([k \in DOMAIN walk |-> <<ns[walk[k].target].id, walk[k].weight>>])

-----------------------------------------------------------------------------
(* Calls on one module graph *)

ModuleIds == {"a", "b"}
Orders == 1..MaxOrder

InitGraph ==
    /\ gpc = "run"
    /\ nodes = <<>>
    /\ edges = <<>>
    /\ id_index_map = EmptyMap
    /\ entries = {}
    /\ last_deps = NoQuery
    /\ last_call = EmptyMap
    /\ n_ops = 0
    /\ added = <<>>
    /\ EnvIdle
    /\ InjIdle

AddModule ==
    /\ gpc = "run"
    /\ n_ops < MaxOps
    /\ \E id \in ModuleIds, is_entry \in BOOLEAN :
          LET g == add_module(nodes, id_index_map, entries,
                              Module(id, is_entry, Len(nodes) + 1))
          IN /\ nodes' = g.nodes
             /\ id_index_map' = g.id_index_map
             /\ entries' = g.entries
             /\ added' = Append(added, Module(id, is_entry, Len(nodes) + 1))
    /\ n_ops' = n_ops + 1
    /\ last_deps' = NoQuery
    /\ UNCHANGED <<gpc, edges, last_call, envVars, injVars>>

AddDependency ==
    /\ gpc = "run"
    /\ n_ops < MaxOps
    /\ \E from \in ModuleIds, to \in ModuleIds, order \in Orders :
          IF from \in DOMAIN id_index_map /\ to \in DOMAIN id_index_map
          THEN LET a == id_index_map[from]
                   b == id_index_map[to]
               IN /\ edges' = update_edge(edges, a, b, Dependency(order))
                  /\ last_call' = Insert(last_call, <<a, b>>, Dependency(order))
                  /\ UNCHANGED gpc
          ELSE /\ gpc' = "panicked"
               /\ UNCHANGED <<edges, last_call>>
    /\ n_ops' = n_ops + 1
    /\ last_deps' = NoQuery
    /\ UNCHANGED <<nodes, id_index_map, entries, added, envVars, injVars>>

GetDependencies ==
    /\ gpc = "run"
    /\ \E module_id \in ModuleIds :
          IF module_id \in DOMAIN id_index_map
          THEN /\ last_deps' = [id |-> module_id,
                                deps |-> get_dependencies(nodes, edges, id_index_map, module_id)]
               /\ UNCHANGED gpc
          ELSE /\ gpc' = "panicked"
               /\ UNCHANGED last_deps
    /\ UNCHANGED <<nodes, edges, id_index_map, entries, last_call, n_ops, added, envVars, injVars>>

NextGraph == AddModule \/ AddDependency \/ GetDependencies

SpecGraph == InitGraph /\ [][NextGraph]_vars

-----------------------------------------------------------------------------
(* Properties of the module graph *)

Count(seq, v) == Cardinality({i \in DOMAIN seq : seq[i] = v})

\* the edge indices of the edges that leave the node registered for module_id
OutgoingEdges(module_id) ==
    {i \in DOMAIN edges : edges[i].source = id_index_map[module_id]}

EdgeAsDep(i) == <<nodes[edges[i].target].id, edges[i].weight>>

\* C9: for a registered module m, get_dependencies(m) returns exactly the
\* outgoing edges of m, each once, in ascending declaration order, and a call
\* repeated with no add_module/add_dependency in between returns the same.
C9_DependenciesSorted ==
    last_deps # NoQuery =>
        LET m == last_deps.id
            deps == last_deps.deps
        IN /\ Len(deps) = Cardinality(OutgoingEdges(m))
           /\ \A i \in OutgoingEdges(m) :
                 Count(deps, EdgeAsDep(i))
                     = Cardinality({j \in OutgoingEdges(m) : EdgeAsDep(j) = EdgeAsDep(i)})
           /\ \A i, j \in DOMAIN deps : i < j => deps[i][2].order <= deps[j][2].order
           /\ get_dependencies(nodes, edges, id_index_map, m) = deps

C9_Witness ==
    /\ last_deps.id = "a"
    /\ Len(edges) = 2
    /\ edges[1].source = id_index_map["a"]
    /\ edges[2].source = id_index_map["a"]
    /\ edges[1].weight.order < edges[2].weight.order
    /\ last_deps.deps = <<EdgeAsDep(1), EdgeAsDep(2)>>

\* C10: add_dependency is an upsert keyed by the ordered pair. The graph holds
\* at most one edge per ordered pair of nodes, an edge for exactly the pairs
\* add_dependency was called for, each with the payload of the latest call for
\* its pair (so a call leaves the edges of other pairs, the reverse pair
\* included, as they were), and repeating a call changes nothing.
C10_AddDependencyUpsert ==
    /\ \A i, j \in DOMAIN edges :
          i # j => <<edges[i].source, edges[i].target>> # <<edges[j].source, edges[j].target>>
    /\ \A i \in DOMAIN edges :
          /\ <<edges[i].source, edges[i].target>> \in DOMAIN last_call
          /\ last_call[<<edges[i].source, edges[i].target>>] = edges[i].weight
    /\ \A pr \in DOMAIN last_call :
          \E i \in DOMAIN edges : <<edges[i].source, edges[i].target>> = pr
    /\ \A a, b \in DOMAIN nodes, o \in Orders :
          LET once == update_edge(edges, a, b, Dependency(o)) IN
          update_edge(once, a, b, Dependency(o)) = once

C10_Witness ==
    /\ gpc = "run"
    /\ Len(nodes) = 2
    /\ n_ops = 4
    /\ Len(edges) = 1
    /\ edges[1] = Edge(1, 2, Dependency(2))
    /\ last_call = Insert(EmptyMap, <<1, 2>>, Dependency(2))

\* C11: a call of add_dependency with an unregistered from or to id, and a call
\* of get_dependencies with an unregistered id, hands the caller an error
\* value: no call on the graph ends in a panic.
C11_UnknownIdIsError == gpc # "panicked"

\* whether the add_module calls made so far had pairwise distinct ids
DistinctIds == \A i, j \in DOMAIN nodes : i # j => nodes[i].id # nodes[j].id

\* C16: graph consistency. After any add_module calls with pairwise distinct
\* ids and any add_dependency calls, every key of the id map refers to the one
\* node whose payload has that id, every node is referred to by exactly one
\* key, the entry set is a subset of the keys, and both endpoints of every edge
\* are nodes of the graph.
C16_GraphConsistent ==
    DistinctIds =>
        /\ \A id \in DOMAIN id_index_map :
              /\ id_index_map[id] \in DOMAIN nodes
              /\ nodes[id_index_map[id]].id = id
              /\ Cardinality({i \in DOMAIN nodes : nodes[i].id = id}) = 1
        /\ \A i \in DOMAIN nodes :
              Cardinality({id \in DOMAIN id_index_map : id_index_map[id] = i}) = 1
        /\ entries \subseteq DOMAIN id_index_map
        /\ \A e \in DOMAIN edges :
              edges[e].source \in DOMAIN nodes /\ edges[e].target \in DOMAIN nodes

C16_Witness ==
    /\ DistinctIds
    /\ Len(nodes) = 2
    /\ ~nodes[1].is_entry
    /\ entries = {nodes[2].id}
    /\ Len(edges) = 2
    /\ edges[1] = Edge(1, 2, Dependency(1))
    /\ edges[2] = Edge(2, 1, Dependency(2))

\* the edge store with its edges inserted in the order perm
Reinserted(perm) == [k \in DOMAIN perm |-> edges[perm[k]]]

\* C20: the sequence get_dependencies returns is independent of insertion
\* order. For the edges the graph holds, every order in which add_dependency
\* could have inserted them yields the sequence the last query returned.
C20_InsertionOrderIndependent ==
    last_deps # NoQuery =>
        \A perm \in IterOrders(DOMAIN edges) :
            get_dependencies(nodes, Reinserted(perm), id_index_map, last_deps.id)
                = last_deps.deps

\* the node indices whose payload has the id
NodesOf(id) == {i \in DOMAIN nodes : nodes[i].id = id}

\* the calls of add_module made for the id, by position in the call history
AddedFor(id) == {i \in DOMAIN added : added[i].id = id}

\* C21 as stated: re-adding an id replaces the module. For every registered
\* id, also one add_module was called for more than once, the graph holds
\* exactly one node with that id, get_module_ids lists the id once, get_module
\* returns the module added last, and every edge that leads to a node with
\* that id leads to the node the id is registered for.
C21_ReAddReplaces ==
    \A id \in DOMAIN id_index_map :
        /\ Cardinality(NodesOf(id)) = 1
        /\ Count(get_module_ids(nodes), id) = 1
        /\ get_module(nodes, id_index_map, id) = Some(added[Max(AddedFor(id))])
        /\ \A e \in DOMAIN edges :
              nodes[edges[e].target].id = id => edges[e].target = id_index_map[id]

\* C21 as amended: re-adding an id registers a further node and keeps the
\* earlier one. The graph holds one node per add_module call, in call order,
\* so get_module_ids lists an id once per call made for it; the id map refers
\* to the node of the latest call for the id and get_module returns that
\* module; and every edge stays between the nodes it was added for, so the
\* edges of an earlier node of the id are not moved to the new node.
C21_ReAddKeepsEarlierNode ==
    /\ nodes = added
    /\ \A id \in DOMAIN id_index_map :
          /\ Count(get_module_ids(nodes), id) = Cardinality(AddedFor(id))
          /\ id_index_map[id] = Max(AddedFor(id))
          /\ get_module(nodes, id_index_map, id) = Some(added[Max(AddedFor(id))])
    /\ \A pr \in DOMAIN last_call :
          \E e \in DOMAIN edges : edges[e] = Edge(pr[1], pr[2], last_call[pr])

C21_Witness ==
    /\ gpc = "run"
    /\ Len(added) = 2
    /\ added[1].id = "a"
    /\ added[2].id = "a"
    /\ Len(nodes) = 2
    /\ id_index_map["a"] = 2
    /\ get_module(nodes, id_index_map, "a") = Some(added[2])
    /\ edges = <<Edge(1, 1, Dependency(1))>>
    /\ last_deps = [id |-> "a", deps |-> <<>>]

====
